---- MODULE Spec2Model ----
(***************************************************************************)
(* NXGENIE (src/NXGenie-App.py): a Streamlit script that is re-run from    *)
(* top to bottom on every user interaction.  The model covers the session  *)
(* store (session_path, save_session, load_session, list_sessions), the    *)
(* sidebar's synchronisation of widgets into st.session_state, the Save    *)
(* and Load buttons, the "Clean & Improve" handler and call_openai.        *)
(*                                                                         *)
(* A Python str is a sequence of pieces.  Text the user types is one piece *)
(* per character; a literal of the program is a single piece.              *)
(***************************************************************************)
EXTENDS Naturals, Sequences, FiniteSets, TLC

VARIABLES
    files,          \* the file system: path -> file content (a token sequence)
    ss,             \* st.session_state
    nx_widget,      \* the value held by the "Target NX version" selectbox
    uploads,        \* the files held by the file_uploader widget
    pc,             \* where the current script run stands
    sel,            \* the Load handler's selected session name
    choice,         \* the Clean & Improve handler's api_key, join_mode and selected
    msgs,           \* the message list assembled by the Clean & Improve handler
    attempt,        \* call_openai: the loop variable
    last_err,       \* call_openai: last_err
    n_calls,        \* chat.completions.create calls made by the current call_openai
    n_sleeps,       \* time.sleep calls made by the current call_openai
    io,             \* the last external call made by call_openai
    outcome,        \* how call_openai ended: its return value or the raised error
    notice,         \* the last st.success / st.error / st.info / exception shown
    runs,           \* script runs started so far
    restored_nx,    \* the nx_version restored by the last Load not followed by a
                    \* change of the version selectbox (observation only)
    names,          \* store harness: the session names under test
    loaded          \* store harness: the value returned by the last load_session

vars == <<files, ss, nx_widget, uploads, pc, sel, choice, msgs, attempt, last_err,
          n_calls, n_sleeps, io, outcome, notice, runs, restored_nx, names, loaded>>

---------------------------------------------------------------------------
(* Bounds of the exploration *)

\* longest session name tried against the store
MaxNameLen == 2
\* script runs (user interactions) explored per session
MaxRuns == 5

---------------------------------------------------------------------------
(* Python str helpers *)

None == [kind |-> "None"]
NoIO == [op |-> "none", out |-> "none"]

Whitespace == {" ", "\n", "\t"}

RECURSIVE lstrip(_)
\* str.lstrip(): drop the leading whitespace
lstrip(s) ==
    IF Len(s) > 0 /\ Head(s) \in Whitespace THEN lstrip(Tail(s)) ELSE s

RECURSIVE rstrip(_)
\* str.rstrip(): drop the trailing whitespace
rstrip(s) ==
    IF Len(s) > 0 /\ s[Len(s)] \in Whitespace
    THEN rstrip(SubSeq(s, 1, Len(s) - 1)) ELSE s

\* str.strip()
strip(s) == rstrip(lstrip(s))

\* characters of the model's alphabet for which str.isalnum() is true:
\* ASCII letters and digits, and letters outside ASCII ("e_acute" is the one
\* character U+00E9)
AsciiAlnum == {"a", "b", "d", "e", "i", "j", "l", "n", "o", "s", "t", "x", "Z", "7"}
NonAsciiAlnum == {"e_acute"}

isalnum(ch) == ch \in AsciiAlnum \cup NonAsciiAlnum

\* str.endswith(suffix)
endswith(s, suffix) ==
    /\ Len(s) >= Len(suffix)
    /\ SubSeq(s, Len(s) - Len(suffix) + 1, Len(s)) = suffix

\* str.startswith(prefix)
startswith(s, prefix) ==
    /\ Len(s) >= Len(prefix)
    /\ SubSeq(s, 1, Len(prefix)) = prefix

\* dict.get(key, default)
get(d, key, default) == IF key \in DOMAIN d THEN d[key] ELSE default

---------------------------------------------------------------------------
(* json.dump / json.load.  A file's content is the sequence of JSON tokens  *)
(* written to it; indentation is not kept.                                  *)

Tok(k, v) == [k |-> k, v |-> v]
P(c) == Tok(c, <<>>)

DigitChars == <<"0", "1", "2", "3", "4", "5", "6", "7", "8", "9">>

RECURSIVE Digits(_)
\* the decimal digits json.dump writes for a non-negative int
Digits(n) ==
    IF n < 10 THEN <<DigitChars[n + 1]>>
    ELSE Digits(n \div 10) \o <<DigitChars[(n % 10) + 1]>>

DigitVal(c) == CHOOSE d \in 0..9 : DigitChars[d + 1] = c

RECURSIVE ParseNum(_, _)
\* the int json.load reads from decimal digits
ParseNum(ds, acc) ==
    IF Len(ds) = 0 THEN acc
    ELSE ParseNum(Tail(ds), 10 * acc + DigitVal(Head(ds)))

DumpStr(s) == <<Tok("str", s)>>
DumpNum(n) == <<Tok("num", Digits(n))>>

\* the keys of a dict, in the order they are written
RECURSIVE KeySeq(_)
KeySeq(S) ==
    IF S = {} THEN <<>>
    ELSE LET k == CHOOSE x \in S : TRUE IN <<k>> \o KeySeq(S \ {k})

RECURSIVE DumpMembers(_, _, _)
\* the members of a dict whose values are str, except those under numKeys (int)
DumpMembers(d, ks, numKeys) ==
    IF Len(ks) = 0 THEN <<>>
    ELSE LET k == Head(ks)
             v == IF k \in numKeys THEN DumpNum(d[k]) ELSE DumpStr(d[k])
         IN  DumpStr(k) \o <<P(":")>> \o v
             \o (IF Len(ks) > 1 THEN <<P(",")>> ELSE <<>>)
             \o DumpMembers(d, Tail(ks), numKeys)

\* a flat dict: a message {role, content} or a file's metadata {name, chars}
DumpDict(d, numKeys) ==
    <<P("{")>> \o DumpMembers(d, KeySeq(DOMAIN d), numKeys) \o <<P("}")>>

RECURSIVE DumpElems(_, _)
DumpElems(l, numKeys) ==
    IF Len(l) = 0 THEN <<>>
    ELSE DumpDict(Head(l), numKeys)
         \o (IF Len(l) > 1 THEN <<P(",")>> ELSE <<>>)
         \o DumpElems(Tail(l), numKeys)

\* a list of flat dicts
DumpList(l, numKeys) == <<P("[")>> \o DumpElems(l, numKeys) \o <<P("]")>>

K_created_at == <<"created_at">>
K_persistent_context == <<"persistent_context">>
K_messages == <<"messages">>
K_nx_version == <<"nx_version">>
K_uploaded_files_meta == <<"uploaded_files_meta">>
K_role == <<"role">>
K_content == <<"content">>
K_name == <<"name">>
K_chars == <<"chars">>

\* json.dump(payload, f, ...) of save_session's payload
json_dump(payload) ==
    <<P("{")>>
    \o DumpStr(K_created_at) \o <<P(":")>> \o DumpStr(payload[K_created_at])
    \o <<P(",")>>
    \o DumpStr(K_persistent_context) \o <<P(":")>>
    \o DumpStr(payload[K_persistent_context]) \o <<P(",")>>
    \o DumpStr(K_messages) \o <<P(":")>> \o DumpList(payload[K_messages], {})
    \o <<P(",")>>
    \o DumpStr(K_nx_version) \o <<P(":")>> \o DumpStr(payload[K_nx_version])
    \o <<P(",")>>
    \o DumpStr(K_uploaded_files_meta) \o <<P(":")>>
    \o DumpList(payload[K_uploaded_files_meta], {K_chars})
    \o <<P("}")>>

ParseFail == [ok |-> FALSE, type |-> "none", val |-> <<>>, rest |-> <<>>]
Parsed(type, val, rest) == [ok |-> TRUE, type |-> type, val |-> val, rest |-> rest]

RECURSIVE ParseValue(_)
RECURSIVE ParseMembers(_, _)
RECURSIVE ParseElements(_, _)

\* one JSON value from the front of the tokens t
ParseValue(t) ==
    IF Len(t) = 0 THEN ParseFail
    ELSE LET h == Head(t)
             r == Tail(t)
         IN  CASE h.k = "str" -> Parsed("str", h.v, r)
               [] h.k = "num" -> Parsed("num", ParseNum(h.v, 0), r)
               [] h.k = "{" ->
                    IF Len(r) > 0 /\ Head(r).k = "}"
                    THEN Parsed("dict", <<>>, Tail(r))
                    ELSE ParseMembers(r, <<>>)
               [] h.k = "[" ->
                    IF Len(r) > 0 /\ Head(r).k = "]"
                    THEN Parsed("list", <<>>, Tail(r))
                    ELSE ParseElements(r, <<>>)
               [] OTHER -> ParseFail

\* the members of an object after its "{"; a repeated key keeps the last value
ParseMembers(t, acc) ==
    IF Len(t) < 2 \/ t[1].k # "str" \/ t[2].k # ":" THEN ParseFail
    ELSE LET key == t[1].v
             pv == ParseValue(SubSeq(t, 3, Len(t)))
         IN  IF ~pv.ok \/ Len(pv.rest) = 0 THEN ParseFail
             ELSE LET acc2 == (key :> pv.val) @@ acc
                      nxt == Head(pv.rest).k
                  IN  CASE nxt = "}" -> Parsed("dict", acc2, Tail(pv.rest))
                        [] nxt = "," -> ParseMembers(Tail(pv.rest), acc2)
                        [] OTHER -> ParseFail

\* the elements of an array after its "["
ParseElements(t, acc) ==
    LET pv == ParseValue(t)
    IN  IF ~pv.ok \/ Len(pv.rest) = 0 THEN ParseFail
        ELSE LET acc2 == Append(acc, pv.val)
                 nxt == Head(pv.rest).k
             IN  CASE nxt = "]" -> Parsed("list", acc2, Tail(pv.rest))
                   [] nxt = "," -> ParseElements(Tail(pv.rest), acc2)
                   [] OTHER -> ParseFail

\* json.load(f): the value, or JSONDecodeError when the text is not one JSON value
json_load(text) ==
    LET pv == ParseValue(text)
    IN  IF pv.ok /\ Len(pv.rest) = 0
        THEN [kind |-> "value", type |-> pv.type, val |-> pv.val]
        ELSE [kind |-> "raise", type |-> "JSONDecodeError", val |-> <<>>]

\* Python truth value of a loaded JSON value
truthy(r) ==
    CASE r.kind # "value" -> FALSE
      [] r.type = "dict" -> DOMAIN r.val # {}
      [] r.type = "num" -> r.val # 0
      [] OTHER -> Len(r.val) > 0

---------------------------------------------------------------------------
(* Session store *)

DATA_DIR == <<"d", "a", "t", "a">>
SEP == <<"/">>
JSON_EXT == <<".", "j", "s", "o", "n">>

\* os.path.join(DATA_DIR, fname)
path_join(dir, fname) == dir \o SEP \o fname

\* os.listdir(DATA_DIR): the names of the files directly in the directory
listdir(fs, dir) ==
    { SubSeq(p, Len(dir) + 2, Len(p)) : p \in { q \in DOMAIN fs : startswith(q, dir \o SEP) } }

AllowedPunct == {"-", "_", " ", "."}

\* a bug: only letters and digits are kept
is_safe_char_alnum(ch) == isalnum(ch)

\* session_path's filter: ch.isalnum() or ch in ("-", "_", " ", ".")
is_safe_char(ch) == isalnum(ch) \/ ch \in AllowedPunct

session_path(name) ==
    LET safe == SelectSeq(name, is_safe_char)
    IN  path_join(DATA_DIR, safe \o JSON_EXT)

\* a bug: the version is looked up under a key the state does not have
save_session_wrong_key(fs, name, state, now) ==
    LET payload == (K_created_at :> now)
                   @@ (K_persistent_context :> get(state, "persistent_context", <<>>))
                   @@ (K_messages :> get(state, "messages", <<>>))
                   @@ (K_nx_version :> get(state, "nx_ver", <<>>))
                   @@ (K_uploaded_files_meta :> get(state, "uploaded_files_meta", <<>>))
    IN  (session_path(name) :> json_dump(payload)) @@ fs

\* save_session(name, state) at time now: the file system afterwards
save_session(fs, name, state, now) ==
    LET payload == (K_created_at :> now)
                   @@ (K_persistent_context :> get(state, "persistent_context", <<>>))
                   @@ (K_messages :> get(state, "messages", <<>>))
                   @@ (K_nx_version :> get(state, "nx_version", <<>>))
                   @@ (K_uploaded_files_meta :> get(state, "uploaded_files_meta", <<>>))
    IN  (session_path(name) :> json_dump(payload)) @@ fs

\* a bug: the file is opened without the os.path.exists test
load_session_unchecked(fs, name) ==
    LET path == session_path(name)
    IN  IF path \notin DOMAIN fs
        THEN [kind |-> "raise", type |-> "FileNotFoundError", val |-> <<>>]
        ELSE json_load(fs[path])

\* load_session(name): None, the parsed value, or the error json.load raises
load_session(fs, name) ==
    LET path == session_path(name)
    IN  IF path \notin DOMAIN fs THEN None
        ELSE json_load(fs[path])

\* code point order of the characters used in file names
CharOrder == <<" ", "!", "-", ".", "7", "Z", "_", "a", "b", "d", "e", "i", "j",
               "l", "n", "o", "s", "t", "x", "e_acute">>
ord(ch) == CHOOSE i \in 1..Len(CharOrder) : CharOrder[i] = ch

RECURSIVE str_lt(_, _)
\* a < b for two str
str_lt(a, b) ==
    IF Len(b) = 0 THEN FALSE
    ELSE IF Len(a) = 0 THEN TRUE
    ELSE IF Head(a) = Head(b) THEN str_lt(Tail(a), Tail(b))
    ELSE ord(Head(a)) < ord(Head(b))

RECURSIVE sorted(_)
\* sorted(list of str), from the set of its elements
sorted(S) ==
    IF S = {} THEN <<>>
    ELSE LET m == CHOOSE x \in S : \A y \in S \ {x} : str_lt(x, y)
         IN  <<m>> \o sorted(S \ {m})

\* list_sessions(): the .json files of DATA_DIR without their extension, sorted
list_sessions(fs) ==
    sorted({ SubSeq(f, 1, Len(f) - 5) : f \in { g \in listdir(fs, DATA_DIR) : endswith(g, JSON_EXT) } })

---------------------------------------------------------------------------
(* st.session_state and the values it holds *)

NX_OPTIONS == <<"NX 1847", "NX 1872", "NX 1899", "NX 1953", "NX 1980", "NX 1988",
                "NX 2007", "NX 2206", "NX 2212", "NX 2306", "NX 2312", "NX 2406">>
NX_DEFAULT_INDEX == 8

\* "sesion-nx"
DEFAULT_SESSION_NAME == <<"s", "e", "s", "i", "o", "n", "-", "n", "x">>
\* "(select)"
SELECT == <<"(", "s", "e", "l", "e", "c", "t", ")">>

Msg(role, content) == (K_role :> role) @@ (K_content :> content)
Meta(name, chars) == (K_name :> name) @@ (K_chars :> chars)

\* lines 50-61: the defaults of a new browser session
InitialStatus ==
    [messages |-> <<>>,
     persistent_context |-> <<>>,
     uploaded_files |-> <<>>,
     uploaded_files_meta |-> <<>>,
     nx_version |-> <<NX_OPTIONS[NX_DEFAULT_INDEX + 1]>>,
     current_session_name |-> DEFAULT_SESSION_NAME]

\* datetime.datetime.utcnow().isoformat() + "Z": the instants a save can happen at
Timestamps == {<<"2025-01-01T00:00:00", "Z">>, <<"2025-01-02T00:00:00", "Z">>}

\* a chat history as an earlier version of the application, or an edit of the
\* file, can have left it in a session file
History ==
    <<Msg(<<"system">>, <<"old system prompt">>),
      Msg(<<"user">>, <<"h", "i">>),
      Msg(<<"assistant">>, <<"hello">>),
      Msg(<<"tool">>, <<"t">>),
      Msg(<<"user">>, <<"bye">>)>>

\* an application state with every field away from its default
RestoredStatus ==
    [messages |-> History,
     persistent_context |-> <<"c">>,
     uploaded_files |-> <<>>,
     uploaded_files_meta |-> <<Meta(<<"o", ".", "p", "y">>, 120)>>,
     nx_version |-> <<NX_OPTIONS[1]>>,
     current_session_name |-> <<"o", "l", "d">>]

EmptyFS == [p \in {} |-> <<>>]
Unset == [kind |-> "unset"]

---------------------------------------------------------------------------
(* The sidebar: every script run copies the widgets into st.session_state  *)

\* st.session_state["uploaded_files"][name] = text on a dict kept in insertion order
dict_set(d, name, text) ==
    IF \E i \in 1..Len(d) : d[i].name = name
    THEN [i \in 1..Len(d) |-> IF d[i].name = name THEN [name |-> name, text |-> text] ELSE d[i]]
    ELSE Append(d, [name |-> name, text |-> text])

RECURSIVE read_uploads(_, _)
\* lines 123-129: the loop over the uploaded files
read_uploads(ups, s) ==
    IF Len(ups) = 0 THEN s
    ELSE LET up == Head(ups)
             text == up.text
         IN  read_uploads(Tail(ups),
                 [s EXCEPT !.uploaded_files = dict_set(@, up.name, text),
                           !.uploaded_files_meta = Append(@, Meta(up.name, Len(text)))])

\* lines 87-134: the selectbox, the text area, the uploader and the name field are
\* written into st.session_state.  The text area and the name field are created
\* with value=<the state's value>: they return it unless the user has just typed.
sidebar(s, nx, ctx, ups, name) ==
    LET s1 == [s EXCEPT !.nx_version = nx, !.persistent_context = ctx]
        s2 == IF Len(ups) > 0
              THEN read_uploads(ups, [s1 EXCEPT !.uploaded_files = <<>>,
                                                !.uploaded_files_meta = <<>>])
              ELSE s1
    IN  [s2 EXCEPT !.current_session_name = name]

\* a bug: the session name is taken over before the record is looked at
load_button_eager(s, name, r) ==
    IF r.kind = "value" /\ truthy(r) /\ r.type = "dict"
    THEN [state |->
             [s EXCEPT !.persistent_context = get(r.val, K_persistent_context, <<>>),
                       !.messages = get(r.val, K_messages, <<>>),
                       !.nx_version = get(r.val, K_nx_version, <<"NX 2212">>),
                       !.uploaded_files_meta = get(r.val, K_uploaded_files_meta, <<>>),
                       !.current_session_name = name],
          notice |-> [kind |-> "success", text |-> <<"loaded">>]]
    ELSE [state |-> [s EXCEPT !.current_session_name = name],
          notice |-> [kind |-> "error", text |-> <<"The session could not be loaded.">>]]

\* lines 143-154: the Load button's handler on the value load_session returned
load_button(s, name, r) ==
    IF ~(Len(name) > 0 /\ name # SELECT)
    THEN [state |-> s, notice |-> None]
    ELSE IF r.kind = "raise"
    THEN [state |-> s, notice |-> [kind |-> "exception", text |-> <<r.type>>]]
    ELSE IF truthy(r)
    THEN IF r.type # "dict"
         THEN [state |-> s, notice |-> [kind |-> "exception", text |-> <<"AttributeError">>]]
         ELSE [state |->
                  [s EXCEPT !.persistent_context = get(r.val, K_persistent_context, <<>>),
                            !.messages = get(r.val, K_messages, <<>>),
                            !.nx_version = get(r.val, K_nx_version, <<"NX 2212">>),
                            !.uploaded_files_meta = get(r.val, K_uploaded_files_meta, <<>>),
                            !.current_session_name = name],
               notice |-> [kind |-> "success",
                           text |-> <<"Session '">> \o name
                                    \o <<"' loaded. (Files must be re-uploaded if required)">>]]
    ELSE [state |-> s,
          notice |-> [kind |-> "error", text |-> <<"The session could not be loaded.">>]]

---------------------------------------------------------------------------
(* Prompting *)

DOC_URL == "https://docs.sw.siemens.com/en-US/doc/209349590/PL20221117716122093.nxopen_python_ref"

build_system_prompt(s) ==
    LET ctx == strip(get(s, "persistent_context", <<>>))
        nx_ver == strip(get(s, "nx_version", <<>>))
        base == <<"You are an expert assistant in NXOpen (Python) for Siemens NX.\n",
                  "Always use and respect the official NXOpen Python documentation when reasoning:\n",
                  DOC_URL, "\n\n",
                  "Act as a reviewer and improver of journals/code: clean, documented, robust, and ready for integration.\n",
                  "Compatibility target: **">> \o nx_ver
                \o <<"**. Avoid using APIs or namespaces incompatible with that version.\n\n",
                     "remove any user movements inside of the code that got recorded in the journal.\n">>
        base2 == IF Len(ctx) > 0
                 THEN base \o <<"PERMANENT INSTRUCTIONS TO FOLLOW:\n">> \o ctx \o <<"\n\n">>
                 ELSE base
    IN  base2 \o <<"Recommended response format:\n",
                   "1) Brief summary of what the code does.\n",
                   "2) List of issues/improvements.\n",
                   "3) Proposed code (a single block with the complete code, including imports/using if applicable).\n",
                   "4) Integration notes for NX.\n">>

\* the three backquotes that open and close a code block
FENCE == "<3 backquotes>"

TOGETHER == "Process TOGETHER (unified)"
SELECTED == "Process SELECTED file"

RECURSIVE join_parts(_)
\* "\n\n".join(parts), parts being the files under their "ARCHIVO" headers
join_parts(fs) ==
    IF Len(fs) = 0 THEN <<>>
    ELSE <<"// ==== ARCHIVO: ">> \o Head(fs).name \o <<" ====\n">> \o Head(fs).text
         \o (IF Len(fs) > 1 THEN <<"\n\n">> ELSE <<>>)
         \o join_parts(Tail(fs))

\* lines 241-250: the code payload
code_msg(fs, join_mode, selected) ==
    IF join_mode = SELECTED /\ selected # None
    THEN LET f == CHOOSE x \in { fs[i] : i \in 1..Len(fs) } : x.name = selected.name
         IN  <<"Received code (file: ">> \o selected.name \o <<"):\n", FENCE, "auto\n">>
             \o f.text \o <<"\n", FENCE>>
    ELSE <<"Received code (multiple files unified):\n", FENCE, "auto\n">>
         \o join_parts(fs) \o <<"\n", FENCE>>

\* a bug: the history is replayed whole
replayed_unfiltered(m) == TRUE

\* line 255: the roles of the history that are replayed
replayed(m) == m[K_role] \in {<<"user">>, <<"assistant">>}

FINAL_INSTRUCTION ==
    <<"Process the file(s) respecting the persistent context and the indicated NX version. Return the final code in a single block.">>

\* lines 252-259: the message list
assemble(s, cm) ==
    <<Msg(<<"system">>, build_system_prompt(s))>>
    \o SelectSeq(s.messages, replayed)
    \o <<Msg(<<"user">>, cm)>>
    \o <<Msg(<<"user">>, FINAL_INSTRUCTION)>>

---------------------------------------------------------------------------
(* call_openai *)

MAX_ATTEMPTS == 3

\* what chat.completions.create can do: return a response or raise
Responses == {<<"Summary...\n", FENCE, "python\nprint(1)\n", FENCE>>, <<"no code block">>}
ErrorKinds == {"APIConnectionError", "RateLimitError"}

\* a bug: only the first exception is remembered
on_exception_first(le, e) == IF le = None THEN e ELSE le

\* line 200: last_err = e
on_exception(le, e) == e

\* line 202: the error raised after the loop
exhausted_error(le) == [kind |-> "raise", type |-> "RuntimeError", cause |-> le]

\* a bug: the handler commits the exchange to the history
show_result_append(s, out) ==
    [s EXCEPT !.messages = Append(@, Msg(<<"assistant">>, <<"response">>))]

\* lines 261-282: what the handler does to st.session_state with the outcome of
\* call_openai (it only displays it)
show_result(s, out) == s

---------------------------------------------------------------------------
(* The application: one action per script run, the handlers of Load and of  *)
(* Clean & Improve as steps of their run                                    *)

UserVersions == {<<NX_OPTIONS[NX_DEFAULT_INDEX + 1]>>, <<NX_OPTIONS[12]>>}
ContextInputs == {<<>>, <<" ", "k", "\n">>}
FileA == [name |-> <<"A", ".", "p", "y">>, text |-> <<"x", "=", "1">>]
FileB == [name |-> <<"B", ".", "c", "s">>, text |-> <<"y">>]
UploadBatches == {<<>>, <<FileA, FileB>>}
TypedNames == {DEFAULT_SESSION_NAME, <<"a", "!">>}
ApiKeys == {<<>>, <<"sk-...">>}

\* a data directory left by earlier sessions: a saved session, a file that is not
\* JSON, an empty JSON object, a file whose name save_session never produces, and
\* a file that is not a session
OldStore ==
    save_session(EmptyFS, <<"o", "l", "d">>, RestoredStatus, <<"2024-12-31T00:00:00", "Z">>)
    @@ (path_join(DATA_DIR, <<"b", "a", "d">> \o JSON_EXT) :> <<P("{"), Tok("str", K_messages)>>)
    @@ (path_join(DATA_DIR, <<"e">> \o JSON_EXT) :> <<P("{"), P("}")>>)
    @@ (path_join(DATA_DIR, <<"a", "!">> \o JSON_EXT) :> <<P("{"), P("}")>>)
    @@ (path_join(DATA_DIR, <<"n", "o", "t", "e", "s">>) :> <<>>)

Init ==
    /\ files \in {EmptyFS, OldStore}
    /\ ss = InitialStatus
    /\ nx_widget = <<NX_OPTIONS[NX_DEFAULT_INDEX + 1]>>
    /\ uploads = <<>>
    /\ pc = "idle"
    /\ sel = SELECT
    /\ choice = None
    /\ msgs = <<>>
    /\ attempt = 0
    /\ last_err = None
    /\ n_calls = 0
    /\ n_sleeps = 0
    /\ io = NoIO
    /\ outcome = None
    /\ notice = None
    /\ runs = 0
    /\ restored_nx = None
    /\ names = << <<>>, <<>> >>
    /\ loaded = Unset

callVars == <<msgs, attempt, last_err, n_calls, n_sleeps, io, outcome>>
harnessVars == <<names, loaded>>

\* a script run starts: the user has changed a widget or pressed a button
StartRun ==
    /\ pc = "idle"
    /\ runs < MaxRuns
    /\ runs' = runs + 1

\* the user picks another target NX version
ChangeVersion(v) ==
    /\ StartRun
    /\ v # nx_widget
    /\ nx_widget' = v
    /\ ss' = sidebar(ss, v, ss.persistent_context, uploads, ss.current_session_name)
    /\ restored_nx' = None
    /\ notice' = None
    /\ UNCHANGED <<files, uploads, pc, sel, choice, callVars, harnessVars>>

\* the user edits the persistent context
EditContext(c) ==
    /\ StartRun
    /\ c # ss.persistent_context
    /\ ss' = sidebar(ss, nx_widget, c, uploads, ss.current_session_name)
    /\ notice' = None
    /\ UNCHANGED <<files, nx_widget, uploads, pc, sel, choice, callVars,
                   restored_nx, harnessVars>>

\* the user changes the files held by the uploader
Upload(b) ==
    /\ StartRun
    /\ b # uploads
    /\ uploads' = b
    /\ ss' = sidebar(ss, nx_widget, ss.persistent_context, b, ss.current_session_name)
    /\ notice' = None
    /\ UNCHANGED <<files, nx_widget, pc, sel, choice, callVars, restored_nx, harnessVars>>

\* the user types a session name
EditName(n) ==
    /\ StartRun
    /\ n # ss.current_session_name
    /\ ss' = sidebar(ss, nx_widget, ss.persistent_context, uploads, n)
    /\ notice' = None
    /\ UNCHANGED <<files, nx_widget, uploads, pc, sel, choice, callVars,
                   restored_nx, harnessVars>>

\* lines 137-139: "Save session"
ClickSave(now) ==
    /\ StartRun
    /\ LET s == sidebar(ss, nx_widget, ss.persistent_context, uploads, ss.current_session_name)
       IN  /\ ss' = s
           /\ files' = save_session(files, s.current_session_name, s, now)
    /\ notice' = [kind |-> "success", text |-> <<"Session saved to /data.">>]
    /\ UNCHANGED <<nx_widget, uploads, pc, sel, choice, callVars, restored_nx, harnessVars>>

\* the options of "Load existing session"
load_options(fs) ==
    LET existing == list_sessions(fs)
    IN  {SELECT} \cup { existing[i] : i \in 1..Len(existing) }

\* "Load" is pressed with s selected: the run reaches the handler
ClickLoad(s) ==
    /\ StartRun
    /\ s \in load_options(files)
    /\ ss' = sidebar(ss, nx_widget, ss.persistent_context, uploads, ss.current_session_name)
    /\ sel' = s
    /\ pc' = "load"
    /\ notice' = None
    /\ UNCHANGED <<files, nx_widget, uploads, choice, callVars, restored_nx, harnessVars>>

\* lines 143-154
LoadHandler ==
    /\ pc = "load"
    /\ LET r == load_button(ss, sel, load_session(files, sel))
       IN  /\ ss' = r.state
           /\ notice' = r.notice
           /\ restored_nx' = IF r.notice.kind = "success"
                             THEN [kind |-> "restored", value |-> r.state.nx_version]
                             ELSE restored_nx
    /\ sel' = SELECT
    /\ pc' = "idle"
    /\ UNCHANGED <<files, nx_widget, uploads, choice, callVars, runs, harnessVars>>

\* "Clean & Improve" is pressed: the run reaches the handler
ClickProcess(key, join_mode, selected) ==
    /\ StartRun
    /\ Len(ss.uploaded_files) > 0
    /\ join_mode = SELECTED =>
          \E i \in 1..Len(ss.uploaded_files) : selected = [name |-> ss.uploaded_files[i].name]
    /\ join_mode = TOGETHER => selected = None
    /\ ss' = sidebar(ss, nx_widget, ss.persistent_context, uploads, ss.current_session_name)
    /\ choice' = [api_key |-> key, join_mode |-> join_mode, selected |-> selected]
    /\ pc' = "process"
    /\ notice' = None
    /\ UNCHANGED <<files, nx_widget, uploads, sel, callVars, restored_nx, harnessVars>>

\* lines 239-263: ensure_client, the payload and the message list; call_openai starts
Assemble ==
    /\ pc = "process"
    /\ \/ /\ Len(choice.api_key) = 0
          /\ notice' = [kind |-> "error", text |-> <<"API Key missing.">>]
          /\ pc' = "idle"
          /\ choice' = None
          /\ UNCHANGED callVars
       \/ /\ Len(choice.api_key) > 0
          /\ msgs' = assemble(ss, code_msg(ss.uploaded_files, choice.join_mode, choice.selected))
          /\ attempt' = 0
          /\ last_err' = None
          /\ pc' = "call"
          /\ UNCHANGED <<choice, notice, n_calls, n_sleeps, io, outcome>>
    /\ UNCHANGED <<files, ss, nx_widget, uploads, sel, runs, restored_nx, harnessVars>>

\* lines 191-200: one attempt
Attempt ==
    /\ pc = "call"
    /\ n_calls' = n_calls + 1
    /\ \/ \E r \in Responses :
             /\ io' = [op |-> "create", out |-> r]
             /\ outcome' = [kind |-> "return", value |-> r]
             /\ pc' = "returned"
             /\ UNCHANGED last_err
       \/ \E k \in ErrorKinds :
             LET e == [call |-> n_calls + 1, type |-> k]
             IN  /\ io' = [op |-> "create", out |-> e]
                 /\ last_err' = on_exception(last_err, e)
                 /\ pc' = "except"
                 /\ UNCHANGED outcome
    /\ UNCHANGED <<files, ss, nx_widget, uploads, sel, choice, msgs, attempt, n_sleeps,
                   notice, runs, restored_nx, harnessVars>>

\* a bug: the exception is handled without the wait
Sleep_missing ==
    /\ pc = "except"
    /\ attempt' = attempt + 1
    /\ pc' = IF attempt + 1 < MAX_ATTEMPTS THEN "call" ELSE "exhausted"
    /\ UNCHANGED <<files, ss, nx_widget, uploads, sel, choice, msgs, last_err, n_calls,
                   n_sleeps, io, outcome, notice, runs, restored_nx, harnessVars>>

\* line 201, then the loop's next round or its end
Sleep ==
    /\ pc = "except"
    /\ n_sleeps' = n_sleeps + 1
    /\ io' = [op |-> "sleep", out |-> "1.2"]
    /\ attempt' = attempt + 1
    /\ pc' = IF attempt + 1 < MAX_ATTEMPTS THEN "call" ELSE "exhausted"
    /\ UNCHANGED <<files, ss, nx_widget, uploads, sel, choice, msgs, last_err, n_calls,
                   outcome, notice, runs, restored_nx, harnessVars>>

\* line 202
Raise ==
    /\ pc = "exhausted"
    /\ outcome' = exhausted_error(last_err)
    /\ pc' = "raised"
    /\ UNCHANGED <<files, ss, nx_widget, uploads, sel, choice, msgs, attempt, last_err,
                   n_calls, n_sleeps, io, notice, runs, restored_nx, harnessVars>>

\* lines 264-282: the result or the error is displayed and the run ends
ProcessEnd ==
    /\ pc \in {"returned", "raised"}
    /\ ss' = show_result(ss, outcome)
    /\ notice' = IF outcome.kind = "return"
                 THEN [kind |-> "result", text |-> outcome.value]
                 ELSE [kind |-> "error",
                       text |-> <<"Ops! An error occurred: ", "Contact OpenAI: ",
                                  outcome.cause.type>>]
    /\ pc' = "idle"
    /\ choice' = None
    /\ msgs' = <<>>
    /\ attempt' = 0
    /\ last_err' = None
    /\ n_calls' = 0
    /\ n_sleeps' = 0
    /\ io' = NoIO
    /\ outcome' = None
    /\ UNCHANGED <<files, nx_widget, uploads, sel, runs, restored_nx, harnessVars>>

Next ==
    \/ \E v \in UserVersions : ChangeVersion(v)
    \/ \E c \in ContextInputs : EditContext(c)
    \/ \E b \in UploadBatches : Upload(b)
    \/ \E n \in TypedNames : EditName(n)
    \/ \E now \in Timestamps : ClickSave(now)
    \/ \E s \in load_options(files) : ClickLoad(s)
    \/ LoadHandler
    \/ \E key \in ApiKeys, jm \in {TOGETHER, SELECTED},
          f \in {None} \cup {[name |-> FileA.name], [name |-> FileB.name]} :
             ClickProcess(key, jm, f)
    \/ Assemble
    \/ Attempt
    \/ Sleep
    \/ Raise
    \/ ProcessEnd

Spec == Init /\ [][Next]_vars

---------------------------------------------------------------------------
(* Properties of call_openai and of the handlers *)

CallPcs == {"call", "except", "exhausted", "returned", "raised"}

\* C1: when call_openai returns, the attempt that returned is the first that did not
\* raise: k attempts were made (k in 1..3), k-1 waits, the attempt before it raised,
\* and the value returned is the response of the last chat.completions.create call,
\* which is the last external call made.
C1_FirstSuccess ==
    pc = "returned" =>
        /\ n_calls \in 1..3
        /\ n_sleeps = n_calls - 1
        /\ n_calls > 1 => last_err.call = n_calls - 1
        /\ io.op = "create"
        /\ outcome = [kind |-> "return", value |-> io.out]
        /\ outcome.value \in Responses

\* fail, fail, succeed: 3 attempts and 2 waits
C1_Witness ==
    /\ pc = "returned"
    /\ n_calls = 3
    /\ n_sleeps = 2

\* C2: when call_openai raises, exactly 3 attempts were made, nothing is returned, and
\* the error raised carries the exception of the 3rd attempt.
C2_Exhaustion ==
    pc = "raised" =>
        /\ n_calls = 3
        /\ outcome.kind = "raise"
        /\ outcome.type = "RuntimeError"
        /\ outcome.cause.call = 3
        /\ outcome.cause.type \in ErrorKinds

\* three failures, the last of another kind than one before it could have been
C2_Witness ==
    /\ pc = "raised"
    /\ n_calls = 3
    /\ outcome.cause = [call |-> 3, type |-> "RateLimitError"]

\* C9 as claimed: whenever the last external call of call_openai is the wait, the
\* next thing call_openai does is another attempt.
C9_WaitThenRetry ==
    (pc \in CallPcs /\ io.op = "sleep") => pc = "call"

RECURSIVE C6_UserAssistant(_)
\* the messages of a history whose role is user or assistant, in their order
C6_UserAssistant(h) ==
    IF Len(h) = 0 THEN <<>>
    ELSE (IF Head(h)[K_role] = <<"user">> \/ Head(h)[K_role] = <<"assistant">>
          THEN <<Head(h)>> ELSE <<>>)
         \o C6_UserAssistant(Tail(h))

\* C6: the list handed to call_openai is the fresh system message, the user and
\* assistant messages of the history in their order, the user message with the code
\* payload and the fixed instruction; its only system message is the first one.
C6_Assembly ==
    pc \in CallPcs =>
        LET n == Len(msgs)
            mid == C6_UserAssistant(ss.messages)
        IN  /\ n = Len(mid) + 3
            /\ msgs[1] = Msg(<<"system">>, build_system_prompt(ss))
            /\ SubSeq(msgs, 2, n - 2) = mid
            /\ msgs[n - 1] = Msg(<<"user">>,
                                 code_msg(ss.uploaded_files, choice.join_mode, choice.selected))
            /\ msgs[n] = Msg(<<"user">>, FINAL_INSTRUCTION)
            /\ \A i \in 2..n : msgs[i][K_role] # <<"system">>

\* a turn on a restored history that holds a system and a tool message
C6_Witness ==
    /\ pc = "call"
    /\ ss.messages = History
    /\ choice.join_mode = SELECTED
    /\ Len(msgs) = 6

\* load_session returns None or an empty record, or raises
C7_Fails ==
    LET r == load_session(files, sel)
    IN  \/ r = None
        \/ r.kind = "raise"
        \/ (r.kind = "value" /\ r.type = "dict" /\ DOMAIN r.val = {})

C10_RestoredVersionUsed ==
    (pc = "call" /\ restored_nx # None) =>
        /\ ss.nx_version = restored_nx.value
        /\ msgs[1][K_content]
              = build_system_prompt([ss EXCEPT !.nx_version = restored_nx.value])

---------------------------------------------------------------------------
(* The session store on its own: save_session and load_session applied to  *)
(* two session names and the application states                            *)

NameAlphabet == {"a", "-", "!", "e_acute"}
SeqsUpTo(A, n) == UNION { [1..k -> A] : k \in 0..n }
Names == SeqsUpTo(NameAlphabet, MaxNameLen)
ShortNames == SeqsUpTo(NameAlphabet, 1)
StoreStates == {InitialStatus, RestoredStatus}

InitStore ==
    /\ files = EmptyFS
    /\ ss \in StoreStates
    /\ names \in Names \X ShortNames
    /\ loaded = Unset
    /\ sel = SELECT
    /\ choice = None
    /\ nx_widget = <<NX_OPTIONS[NX_DEFAULT_INDEX + 1]>>
    /\ uploads = <<>>
    /\ pc = "store"
    /\ msgs = <<>>
    /\ attempt = 0
    /\ last_err = None
    /\ n_calls = 0
    /\ n_sleeps = 0
    /\ io = NoIO
    /\ outcome = None
    /\ notice = None
    /\ runs = 0
    /\ restored_nx = None

storeFrame == <<nx_widget, uploads, choice, msgs, attempt, last_err, n_calls, n_sleeps,
                io, outcome, notice, runs, restored_nx>>

\* save_session(names[i], ss)
StoreSave(i, now) ==
    /\ files' = save_session(files, names[i], ss, now)
    /\ sel' = names[i]
    /\ loaded' = Unset
    /\ pc' = "saved"
    /\ UNCHANGED <<ss, names, storeFrame>>

\* loaded = load_session(names[i])
StoreLoad(i) ==
    /\ sel' = names[i]
    /\ loaded' = load_session(files, names[i])
    /\ pc' = "loaded"
    /\ UNCHANGED <<files, ss, names, storeFrame>>

\* the application state changes between two calls
StoreSetState(S) ==
    /\ S # ss
    /\ ss' = S
    /\ sel' = SELECT
    /\ loaded' = Unset
    /\ pc' = "store"
    /\ UNCHANGED <<files, names, storeFrame>>

NextStore ==
    \/ \E i \in 1..2, now \in Timestamps : StoreSave(i, now)
    \/ \E i \in 1..2 : StoreLoad(i)
    \/ \E S \in StoreStates : StoreSetState(S)

SpecStore == InitStore /\ [][NextStore]_vars

---------------------------------------------------------------------------
(* Properties of the session store *)

\* the record r that load_session returned carries the four persisted fields of S
SameFields(r, S) ==
    /\ r.kind = "value"
    /\ r.type = "dict"
    /\ {K_persistent_context, K_messages, K_nx_version, K_uploaded_files_meta}
          \subseteq DOMAIN r.val
    /\ r.val[K_persistent_context] = S.persistent_context
    /\ r.val[K_messages] = S.messages
    /\ r.val[K_nx_version] = S.nx_version
    /\ r.val[K_uploaded_files_meta] = S.uploaded_files_meta

\* C3: right after save_session(name, S), load_session(name) returns a record whose
\* persistent_context, messages, nx_version and uploaded_files_meta are those of S,
\* whatever was saved before under this or the other name.
C3_RoundTrip ==
    pc = "saved" => SameFields(load_session(files, sel), ss)

\* a save of a state with history, context, version and metadata, made when both
\* names already have a file
C3_Witness ==
    /\ pc = "saved"
    /\ ss = RestoredStatus
    /\ Cardinality(DOMAIN files) = 2
    /\ \E p \in DOMAIN files :
          json_load(files[p]).val[K_messages] = <<>>

\* the name with every character outside [A-Za-z0-9], "-", "_", " ", "." removed
C4_AsciiSafe(name) ==
    SelectSeq(name, LAMBDA ch : ch \in {"a", "Z", "7", "-", "_", " ", "."})

\* the name with every character removed that is neither a letter or digit of any
\* script nor one of "-", "_", " ", "."
C4_UnicodeSafe(name) ==
    SelectSeq(name, LAMBDA ch : ch \in {"a", "Z", "7", "e_acute", "-", "_", " ", "."})

C4_File(safe) == DATA_DIR \o <<"/">> \o safe \o <<".", "j", "s", "o", "n">>

\* C4 as claimed: the file a save writes is named by the session name with every
\* character outside [A-Za-z0-9-_ .] removed.
C4_AsciiSanitization ==
    pc = "saved" =>
        /\ C4_File(C4_AsciiSafe(sel)) \in DOMAIN files
        /\ DOMAIN files \subseteq { C4_File(C4_AsciiSafe(names[i])) : i \in 1..2 }

\* C4 as amended: the file a save writes is named by the session name with every
\* character removed that str.isalnum() rejects and that is not "-", "_", " " or
\* "."; a name with the same sanitized form then loads the record just saved.
C4_Sanitization ==
    pc = "saved" =>
        /\ C4_File(C4_UnicodeSafe(sel)) \in DOMAIN files
        /\ DOMAIN files \subseteq { C4_File(C4_UnicodeSafe(names[i])) : i \in 1..2 }
        /\ \A i \in 1..2 :
              C4_UnicodeSafe(names[i]) = C4_UnicodeSafe(sel)
                  => SameFields(load_session(files, names[i]), ss)

\* a save under a name that differs from the other name only by a disallowed
\* character, both holding a kept non-ASCII letter
C4_Witness ==
    /\ pc = "saved"
    /\ names = << <<"e_acute", "!">>, <<"e_acute">> >>
    /\ sel = names[1]
    /\ Cardinality(DOMAIN files) = 1

\* C5: load_session of a name whose sanitized file is not in the store returns None
\* (it does not raise), whatever was saved under other names.
C5_MissingSession ==
    (pc = "loaded" /\ session_path(sel) \notin DOMAIN files) => loaded = None

\* a load of a missing session after a save under the other name
C5_Witness ==
    /\ pc = "loaded"
    /\ loaded = None
    /\ DOMAIN files # {}
    /\ C4_File(C4_UnicodeSafe(sel)) \notin DOMAIN files

====
